---------------------------- MODULE Spec2Model ----------------------------
(* Model of the deployment orchestrator of WenChen21/demo_project:          *)
(* DeploymentService (src/src/services/deploymentService.js), the routes   *)
(* that call it (src/unnamed/part_003), the provisioning driver            *)
(* TerraformService (src/src/services/nlpProcessor.js:994-1792) and the    *)
(* file-system helpers (src/src/utils/fileSystem.js).                      *)
(*                                                                         *)
(* JavaScript runs one handler at a time and switches handlers only at an  *)
(* await on I/O.  The variable turn names the handler that holds the       *)
(* thread between two of its own writes; turn = 0 is the idle event loop.  *)
EXTENDS Integers, Sequences, FiniteSets, TLC

(***************************************************************************)
(* Bounds                                                                  *)
(***************************************************************************)
MaxIds == 2          \* number of intake calls (each draws a fresh uuid)
MaxRestarts == 1     \* number of process restarts

Ids == 1..MaxIds
NoId == 0
Refs == 1..(2 * MaxIds + 1)   \* object addresses: table entries + locals + one
NoRef == 0

Undefined == "undefined"
Null == "null"
NoError == "none"

(***************************************************************************)
(* JavaScript values that the pure helpers inspect                         *)
(***************************************************************************)
\* the methods class TerraformService defines
TerraformServiceMethods ==
  {"generateTerraformConfig", "generateMainTerraform", "generateUserDataScript",
   "generateVariablesTerraform", "generateOutputsTerraform",
   "generateProvidersTerraform", "applyInfrastructure", "getLatestAMI",
   "runTerraformCommand", "destroyInfrastructure"}

\* the argument destroyDeployment passes to destroyInfrastructure: an object
DestroyInfrastructureArg(deploymentId) ==
  [type |-> "object", deploymentId |-> deploymentId]

\* path.join throws a TypeError on a segment that is not a string
PathJoinThrows(segment) == segment.type # "string"

\* the outputs the generated outputs.tf declares, which is what
\* `terraform output -json` reports after a successful apply
TemplateOutputs ==
  {"instance_id", "instance_public_ip", "instance_public_dns",
   "application_url", "vpc_id", "subnet_id", "security_group_id"}

\* the object literal {}
EmptyObject ==
  [deploymentId |-> NoId, status |-> Undefined, steps |-> << >>,
   publicUrl |-> Undefined, error |-> Undefined, infrastructure |-> FALSE,
   hasAnalysis |-> FALSE, instructions |-> FALSE]

NoObj == [EmptyObject EXCEPT !.status = "<free>"]

\* the second generateDeploymentSteps of the class (the later definition of a
\* method name replaces the earlier one): five pending steps
GenerateDeploymentSteps ==
  << [id |-> "infrastructure", status |-> "pending"],
     [id |-> "system", status |-> "pending"],
     [id |-> "application", status |-> "pending"],
     [id |-> "service", status |-> "pending"],
     [id |-> "verification", status |-> "pending"] >>

\* calculateProgress
StageIndex(status) ==
  CASE status = "analyzed" -> 0
    [] status = "deploying" -> 1
    [] status = "deployed" -> 2
    [] status = "failed" -> 3
    [] OTHER -> -1

\* Math.round(((i + 1) / 3) * 100) for i in 0..2
RoundedThirds(i) == ((i + 1) * 200 + 3) \div 6

CalculateProgress_NoFailedCase(status) ==
  IF StageIndex(status) = -1 THEN 0
  ELSE RoundedThirds(StageIndex(status))

CalculateProgress(status) ==
  IF StageIndex(status) = -1 THEN 0
  ELSE IF status = "failed" THEN 100
  ELSE RoundedThirds(StageIndex(status))

\* the public URL deployApplication stores (lines 164-173); the fallback is
\* deployToInfrastructure's generatePublicUrl, which receives the result
\* wrapper {success, outputs, publicUrl, message} and so always fabricates
DeployPublicUrl(outputs) ==
  IF "application_url" \in outputs THEN "application_url.value"
  ELSE IF "instance_public_ip" \in outputs THEN "http://instance_public_ip:8080"
  ELSE "http://ec2-fabricated:8080"

\* the record updateDeploymentStatus builds from the stored one
UpdatedDeployment_DropError(deployment, deploymentId, status, error) ==
  [deployment EXCEPT !.deploymentId = deploymentId,
                     !.status = status,
                     !.steps = Append(@, [id |-> Undefined, status |-> status])]

UpdatedDeployment(deployment, deploymentId, status, error) ==
  [deployment EXCEPT !.deploymentId = deploymentId,
                     !.status = status,
                     !.steps = Append(@, [id |-> Undefined, status |-> status]),
                     !.error = IF error # NoError THEN error ELSE @]

\* the record analyzeApplication stores (lines 73-83): no steps field
AnalysisResult(deploymentId) ==
  [EmptyObject EXCEPT !.deploymentId = deploymentId, !.status = "analyzed",
                      !.hasAnalysis = TRUE]

(***************************************************************************)
(* State                                                                   *)
(***************************************************************************)
VARIABLES
  deployments,   \* this.deployments: id -> address of the record, or NoRef
  heap,          \* address -> record
  proc,          \* the intake handler that drew each id, and its position
  dproc,         \* position of the destroy handler running for each id
  turn,          \* handler holding the thread, 0 when the event loop is idle
  depDir,        \* ids whose directory <TEMP_DIR or ./temp>/<id> exists
  tfState,       \* ids with <cwd>/temp/<id>/hello_world/terraform/terraform.tfstate
  tempDirSet,    \* TEMP_DIR names a directory other than ./temp
  nextId,        \* next uuid to draw
  restarts,      \* restarts so far
  acked,         \* ids an intake call has answered with
  destroyed,     \* ids for which destroy has been called on a stored record
  polled,        \* what the status poll that just ran returned
  destroyRes,    \* what the destroy call that just ended returned
  tf,            \* a run of applyInfrastructure's terraform commands, in isolation
  unit,          \* a call of one of the service's pure functions, in isolation
  reply          \* what the intake, steps or logs call that just ended answered

vars == << deployments, heap, proc, dproc, turn, depDir, tfState, tempDirSet,
           nextId, restarts, acked, destroyed, polled, destroyRes, tf,
           unit, reply >>

Has(id) == id \in Ids /\ deployments[id] # NoRef
Get(id) == heap[deployments[id]]

NoProc ==
  [kind |-> "none", pc |-> "none", ar |-> NoRef, err |-> NoError,
   phase |-> "none", started |-> {}, rethrown |-> FALSE, out |-> {}]

NoPoll ==
  [deploymentId |-> NoId, thrown |-> NoError, status |-> Undefined,
   publicUrl |-> Undefined, error |-> Undefined, progress |-> 0,
   note |-> Undefined, toolOk |-> FALSE]

NoRes ==
  [deploymentId |-> NoId, res |-> "none", step |-> "none",
   provisioned |-> FALSE, deprov |-> FALSE]

NoDestroy == [pc |-> "idle", deprov |-> FALSE]

\* no run of the driver's commands is being followed
NoRun ==
  [pc |-> "none", ran |-> << >>, exits |-> << >>, stderr |-> "", stdout |-> "",
   error |-> [kind |-> "none", code |-> 0, payload |-> ""]]

\* no function is being called in isolation
NoCall == [fn |-> "none", done |-> FALSE]

\* the handlers of the service leave the isolated units alone
UnchangedUnits == UNCHANGED << tf, unit >>

\* no answer of an intake, steps or logs call
NoReply ==
  [api |-> "none", deploymentId |-> NoId, code |-> 0, error |-> NoError,
   route |-> "none",
   body |-> [text |-> FALSE, repositoryUrl |-> FALSE, other |-> FALSE],
   steps |-> << >>, logs |-> {}, toolOk |-> FALSE]

\* a response is observed in the state right after the handler that produced it
Quiet == polled' = NoPoll /\ destroyRes' = NoRes /\ reply' = NoReply

\* addresses reachable from the table or from a handler's local variable
Live(tbl, pr) ==
  ({tbl[i] : i \in Ids} \cup {pr[i].ar : i \in Ids}) \ {NoRef}

Collect(h, tbl, pr) ==
  [r \in Refs |-> IF r \in Live(tbl, pr) THEN h[r] ELSE NoObj]

Fresh == CHOOSE r \in Refs \ Live(deployments, proc) :
           \A q \in Refs \ Live(deployments, proc) : r <= q

Commit(tbl, h, pr) ==
  /\ deployments' = tbl
  /\ proc' = pr
  /\ heap' = Collect(h, tbl, pr)

InitService ==
  /\ deployments = [i \in Ids |-> NoRef]
  /\ heap = [r \in Refs |-> NoObj]
  /\ proc = [i \in Ids |-> NoProc]
  /\ dproc = [i \in Ids |-> NoDestroy]
  /\ turn = 0
  /\ depDir = {}
  /\ tfState = {}
  /\ tempDirSet \in BOOLEAN
  /\ nextId = 1
  /\ restarts = 0
  /\ acked = {}
  /\ destroyed = {}
  /\ polled = NoPoll
  /\ destroyRes = NoRes
  /\ reply = NoReply

Init == InitService /\ tf = NoRun /\ unit = NoCall

(***************************************************************************)
(* Helpers shared by the handlers                                          *)
(***************************************************************************)
\* this.deployments.get(id) || {}
GetOrEmpty(id) == IF Has(id) THEN Get(id) ELSE EmptyObject

\* updateDeploymentStatus(id, status, message, result, error): builds a new
\* object from the stored one and stores it under id
UpdateDeploymentStatus(id, status, error, pr) ==
  LET r == Fresh
      tbl == [deployments EXCEPT ![id] = r]
      h == [heap EXCEPT ![r] = UpdatedDeployment(GetOrEmpty(id), id, status, error)]
  IN Commit(tbl, h, pr)

\* the handler's position once it has returned or thrown to the route
Ended(p, rethrown) ==
  [NoProc EXCEPT !.kind = p.kind, !.pc = "done", !.rethrown = rethrown]

\* a throw inside analyzeApplication or deployApplication: the handler's next
\* step is the catch block of the function it was called from
Thrown(id, msg) ==
  IF proc[id].kind = "analyze" THEN Ended(proc[id], TRUE)
  ELSE [proc[id] EXCEPT !.err = msg,
                        !.pc = IF proc[id].phase = "analysis"
                                  /\ proc[id].kind = "chat"
                                 THEN "c_catch" ELSE "d_catch"]

TurnAfterThrow(id) == IF proc[id].kind = "analyze" THEN 0 ELSE id

UnchangedDisk == UNCHANGED << depDir, tfState, tempDirSet >>
UnchangedMemory == UNCHANGED << deployments, heap >>

(***************************************************************************)
(* POST /chat -> processChatDeployment                                     *)
(***************************************************************************)
\* lines 224-231: the record is created with status initializing
ChatIntake ==
  /\ turn = 0
  /\ nextId <= MaxIds
  /\ LET id == nextId
         r == Fresh
         pr == [proc EXCEPT ![id] = [NoProc EXCEPT !.kind = "chat",
                                                   !.pc = "c_analyzing"]]
     IN /\ Commit([deployments EXCEPT ![id] = r],
                  [heap EXCEPT ![r] = [EmptyObject EXCEPT !.deploymentId = id,
                                                          !.status = "initializing"]],
                  pr)
        /\ turn' = id
  /\ nextId' = nextId + 1
  /\ UnchangedDisk
  /\ Quiet
  /\ UnchangedUnits
  /\ UNCHANGED << dproc, restarts, acked, destroyed >>

\* lines 234-239: status analyzing, then analyzeApplication runs up to its
\* first await; the route answers with the id
ChatAnalyzing(id) ==
  /\ turn = id
  /\ proc[id].pc = "c_analyzing"
  /\ UpdateDeploymentStatus(id, "analyzing", NoError,
       [proc EXCEPT ![id].pc = "a_run", ![id].phase = "analysis",
                    ![id].started = @ \cup {"analysis"}])
  /\ turn' = 0
  /\ acked' = acked \cup {id}
  /\ UnchangedDisk
  /\ Quiet
  /\ UnchangedUnits
  /\ UNCHANGED << dproc, nextId, restarts, destroyed >>

\* lines 247-256 and 114-115: status deploying, then deployApplication is
\* entered with analysisId = deploymentId and reads the record just stored
ChatDeploying(id) ==
  /\ turn = id
  /\ proc[id].pc = "c_deploying"
  /\ UpdateDeploymentStatus(id, "deploying", NoError,
       [proc EXCEPT ![id].pc = "d_mark", ![id].phase = "deploy",
                    ![id].started = @ \cup {"deploy"},
                    ![id].ar = Fresh])
  /\ UNCHANGED turn
  /\ UnchangedDisk
  /\ Quiet
  /\ UnchangedUnits
  /\ UNCHANGED << dproc, nextId, restarts, acked, destroyed >>

\* lines 259-268: status completing, then generateChatResponse is awaited
ChatCompleting(id) ==
  /\ turn = id
  /\ proc[id].pc = "c_completing"
  /\ UpdateDeploymentStatus(id, "completing", NoError,
       [proc EXCEPT ![id].pc = "c_resp", ![id].phase = "response",
                    ![id].started = @ \cup {"response"}])
  /\ turn' = 0
  /\ UnchangedDisk
  /\ Quiet
  /\ UnchangedUnits
  /\ UNCHANGED << dproc, nextId, restarts, acked, destroyed >>

\* lines 270-287: generateChatResponse catches its own errors and returns a
\* fallback text, so this phase only completes
ChatResponse(id) ==
  /\ turn = 0
  /\ proc[id].pc = "c_resp"
  /\ UpdateDeploymentStatus(id, "completed", NoError,
       [proc EXCEPT ![id] = Ended(proc[id], FALSE)])
  /\ UNCHANGED turn
  /\ UnchangedDisk
  /\ Quiet
  /\ UnchangedUnits
  /\ UNCHANGED << dproc, nextId, restarts, acked, destroyed >>

\* what the catch block of processChatDeployment leaves of the handler
ChatCaught(p) == Ended(p, TRUE)

\* lines 288-298: the catch block records failed and re-throws
ChatCatch(id) ==
  /\ turn = id
  /\ proc[id].pc = "c_catch"
  /\ UpdateDeploymentStatus(id, "failed", proc[id].err,
       [proc EXCEPT ![id] = ChatCaught(proc[id])])
  /\ turn' = 0
  /\ UnchangedDisk
  /\ Quiet
  /\ UnchangedUnits
  /\ UNCHANGED << dproc, nextId, restarts, acked, destroyed >>

(***************************************************************************)
(* analyzeApplication                                                      *)
(***************************************************************************)
\* POST /analyze: the handler awaits analyzeApplication
AnalyzeIntake ==
  /\ turn = 0
  /\ nextId <= MaxIds
  /\ proc' = [proc EXCEPT ![nextId] = [NoProc EXCEPT !.kind = "analyze",
                                                     !.pc = "a_run",
                                                     !.phase = "analysis",
                                                     !.started = {"analysis"}]]
  /\ nextId' = nextId + 1
  /\ UnchangedDisk
  /\ UnchangedMemory
  /\ Quiet
  /\ UnchangedUnits
  /\ UNCHANGED << dproc, turn, restarts, acked, destroyed >>

\* lines 38-92: create the deployment directory, clone, inspect, decide the
\* strategy, store the result under deploymentId; or a collaborator throws
\* once the directory is there (lines 93-96)
AnalyzeFinish(id) ==
  /\ turn = 0
  /\ proc[id].pc = "a_run"
  /\ \/ LET r == Fresh
            pr == [proc EXCEPT
                     ![id] = CASE proc[id].kind = "chat" ->
                                    [proc[id] EXCEPT !.pc = "c_deploying"]
                               [] proc[id].kind = "deploy" ->
                                    [proc[id] EXCEPT !.pc = "d_mark", !.ar = r]
                               [] OTHER -> Ended(proc[id], FALSE)]
        IN /\ Commit([deployments EXCEPT ![id] = r],
                     [heap EXCEPT ![r] = AnalysisResult(id)], pr)
           /\ turn' = IF proc[id].kind = "analyze" THEN 0 ELSE id
           /\ depDir' = depDir \cup {id}
     \/ /\ proc' = [proc EXCEPT ![id] = Thrown(id, "analysis_error")]
        /\ turn' = TurnAfterThrow(id)
        /\ depDir' = depDir \cup {id}
        /\ UnchangedMemory
  /\ Quiet
  /\ UnchangedUnits
  /\ UNCHANGED << tfState, tempDirSet, dproc, nextId, restarts, acked, destroyed >>

(***************************************************************************)
(* POST /deploy -> deployApplication                                       *)
(***************************************************************************)
\* part_003 lines 90-130 and deployApplication lines 111-123: a known
\* analysisId yields the stored object itself, anything else a new analysis
DeployIntake(analysisId) ==
  /\ turn = 0
  /\ nextId <= MaxIds
  /\ LET id == nextId
         hit == analysisId # NoId /\ Has(analysisId)
     IN /\ Commit(deployments, heap,
             [proc EXCEPT ![id] =
                [NoProc EXCEPT !.kind = "deploy",
                               !.pc = IF hit THEN "d_mark" ELSE "a_run",
                               !.phase = IF hit THEN "deploy" ELSE "analysis",
                               !.started = IF hit THEN {"deploy"} ELSE {"analysis"},
                               !.ar = IF hit THEN deployments[analysisId] ELSE NoRef]])
        /\ turn' = IF hit THEN id ELSE 0
        /\ acked' = IF hit THEN acked ELSE acked \cup {id}
  /\ nextId' = nextId + 1
  /\ UnchangedDisk
  /\ Quiet
  /\ UnchangedUnits
  /\ UNCHANGED << dproc, restarts, destroyed >>

\* the object deployApplication marks at lines 126-130
MarkedDeploying(analysisResult) ==
  [analysisResult EXCEPT !.status = "deploying",
                         !.steps = GenerateDeploymentSteps]

\* lines 125-132: the object is stored under deploymentId as it is
DeployMark(id) ==
  /\ turn = id
  /\ proc[id].pc = "d_mark"
  /\ LET r == proc[id].ar
     IN Commit([deployments EXCEPT ![id] = r],
               [heap EXCEPT ![r] = MarkedDeploying(heap[r])],
               [proc EXCEPT ![id].pc = "d_config", ![id].phase = "deploy",
                            ![id].started = @ \cup {"deploy"}])
  /\ UNCHANGED turn
  /\ UnchangedDisk
  /\ Quiet
  /\ UnchangedUnits
  /\ UNCHANGED << dproc, nextId, restarts, acked, destroyed >>

\* lines 135-143 with part_002 lines 98-168: generateDeploymentConfig reads
\* nlpAnalysis.cloudProvider and throws a TypeError on a record that carries
\* no analysis; the route has answered by the time the await resumes
DeployConfig(id) ==
  /\ turn = id
  /\ proc[id].pc = "d_config"
  /\ IF heap[proc[id].ar].hasAnalysis
       THEN /\ proc' = [proc EXCEPT ![id].pc = "provision"]
            /\ turn' = 0
       ELSE /\ proc' = [proc EXCEPT ![id] = Thrown(id, "TypeError")]
            /\ UNCHANGED turn
  /\ acked' = acked \cup {id}
  /\ UnchangedMemory
  /\ UnchangedDisk
  /\ Quiet
  /\ UnchangedUnits
  /\ UNCHANGED << dproc, nextId, restarts, destroyed >>

\* applyInfrastructure (nlpProcessor.js lines 1560-1652): the working
\* directory <cwd>/temp/<id>/hello_world/terraform is created, the templates
\* are written, init, plan, apply and output -json run; a command that exits
\* with a code other than 0 rejects (lines 1678-1730).  A successful apply
\* leaves terraform.tfstate; a failed run may have written it already.
Provision(id) ==
  /\ turn = 0
  /\ proc[id].pc = "provision"
  /\ \/ /\ proc' = [proc EXCEPT ![id].pc = "host", ![id].out = TemplateOutputs]
        /\ tfState' = tfState \cup {id}
        /\ depDir' = IF tempDirSet THEN depDir ELSE depDir \cup {id}
        /\ UNCHANGED turn
     \/ \E written \in BOOLEAN :
          /\ proc' = [proc EXCEPT ![id] = Thrown(id, "Terraform command failed")]
          /\ tfState' = IF written THEN tfState \cup {id} ELSE tfState
          /\ depDir' = IF written /\ ~tempDirSet THEN depDir \cup {id} ELSE depDir
          /\ turn' = id
  /\ UnchangedMemory
  /\ Quiet
  /\ UnchangedUnits
  /\ UNCHANGED << tempDirSet, dproc, nextId, restarts, acked, destroyed >>

\* the object deployApplication completes at lines 176-186
MarkedDeployed(analysisResult, outputs) ==
  [analysisResult EXCEPT !.status = "deployed",
                         !.infrastructure = TRUE,
                         !.publicUrl = DeployPublicUrl(outputs),
                         !.instructions = TRUE]

\* lines 155-194: deployToInfrastructure only waits on timers, then the record
\* is completed and stored again under deploymentId
DeployFinish(id) ==
  /\ turn = 0
  /\ proc[id].pc = "host"
  /\ LET r == proc[id].ar
     IN Commit([deployments EXCEPT ![id] = r],
               [heap EXCEPT ![r] = MarkedDeployed(heap[r], proc[id].out)],
               [proc EXCEPT ![id] =
                  IF proc[id].kind = "chat"
                    THEN [proc[id] EXCEPT !.pc = "c_completing",
                                          !.ar = NoRef, !.out = {}]
                    ELSE Ended(proc[id], FALSE)])
  /\ turn' = IF proc[id].kind = "chat" THEN id ELSE 0
  /\ UnchangedDisk
  /\ Quiet
  /\ UnchangedUnits
  /\ UNCHANGED << dproc, nextId, restarts, acked, destroyed >>

\* the object the catch block of deployApplication marks at lines 199-205
MarkedFailed(deployment, message) ==
  [deployment EXCEPT !.status = "failed", !.error = message]

\* lines 195-208: the record under deploymentId, when there is one, is marked
\* failed in place; the error is re-thrown to the caller
DeployCatch(id) ==
  /\ turn = id
  /\ proc[id].pc = "d_catch"
  /\ LET h == IF Has(id)
                THEN [heap EXCEPT ![deployments[id]] =
                                     MarkedFailed(@, proc[id].err)]
                ELSE heap
     IN Commit(deployments, h,
               [proc EXCEPT ![id] =
                  IF proc[id].kind = "chat"
                    THEN [proc[id] EXCEPT !.pc = "c_catch",
                                          !.ar = NoRef, !.out = {}]
                    ELSE Ended(proc[id], TRUE)])
  /\ turn' = IF proc[id].kind = "chat" THEN id ELSE 0
  /\ UnchangedDisk
  /\ Quiet
  /\ UnchangedUnits
  /\ UNCHANGED << dproc, nextId, restarts, acked, destroyed >>

(***************************************************************************)
(* GET /:deploymentId/status -> getDeploymentStatus                        *)
(***************************************************************************)
\* lines 503-514: the directory and the state file reconciliation looks for,
\* both under TEMP_DIR or ./temp; the driver writes under <cwd>/temp
ArtifactsFound(id) == id \in depDir /\ ~tempDirSet /\ id \in tfState

\* lines 488-499
StatusOfRecord(id, deployment) ==
  [NoPoll EXCEPT !.deploymentId = id,
                 !.status = deployment.status,
                 !.publicUrl = deployment.publicUrl,
                 !.error = deployment.error,
                 !.progress = CalculateProgress(deployment.status)]

\* lines 573-581
StatusUnclear(id) ==
  [NoPoll EXCEPT !.deploymentId = id, !.status = "unknown",
                 !.publicUrl = Null, !.error = Null, !.progress = 50,
                 !.note = "Deployment artifacts found but status unclear"]

\* lines 524-529
ReconstructedUrl(outputs) ==
  IF "application_url" \in outputs THEN "application_url.value"
  ELSE IF "instance_public_ip" \in outputs THEN "http://instance_public_ip:8080"
  ELSE Null

\* lines 543-552
ReconstructedDeployment(id, outputs) ==
  [EmptyObject EXCEPT !.deploymentId = id, !.status = "completed",
                      !.publicUrl = ReconstructedUrl(outputs),
                      !.infrastructure = TRUE,
                      !.steps = GenerateDeploymentSteps,
                      !.instructions = TRUE]

\* lines 556-565
StatusReconstructed(id, outputs) ==
  [NoPoll EXCEPT !.deploymentId = id, !.status = "completed",
                 !.publicUrl = ReconstructedUrl(outputs), !.error = Null,
                 !.progress = 100,
                 !.note = "Status reconstructed from deployment artifacts"]

\* lines 586-592
StatusNotFound(id) ==
  [NoPoll EXCEPT !.deploymentId = id, !.thrown = "Deployment not found"]

\* line 522 calls this.terraformService.getTerraformOutputs: a TypeError
\* when the class defines no such method, else the tool's exit decides
GetTerraformOutputsThrows(toolOk) ==
  "getTerraformOutputs" \notin TerraformServiceMethods \/ ~toolOk

\* lines 486-594.  toolOk: `terraform output -json` would exit with code 0
\* in the reconciled directory.  The inner catch (lines 566-582) turns a
\* throw of line 522 into the "unknown" answer.
GetStatus(id, toolOk) ==
  /\ turn = 0
  /\ id < nextId
  /\ IF Has(id)
       THEN /\ ~toolOk
            /\ polled' = StatusOfRecord(id, Get(id))
            /\ UnchangedMemory
       ELSE IF ArtifactsFound(id)
         THEN IF GetTerraformOutputsThrows(toolOk)
                THEN /\ polled' = [StatusUnclear(id) EXCEPT !.toolOk = toolOk]
                     /\ UnchangedMemory
                ELSE LET r == Fresh
                     IN /\ deployments' = [deployments EXCEPT ![id] = r]
                        /\ heap' = [heap EXCEPT ![r] =
                                      ReconstructedDeployment(id, TemplateOutputs)]
                        /\ polled' = [StatusReconstructed(id, TemplateOutputs)
                                        EXCEPT !.toolOk = toolOk]
         ELSE /\ ~toolOk
              /\ polled' = StatusNotFound(id)
              /\ UnchangedMemory
  /\ destroyRes' = NoRes
  /\ reply' = NoReply
  /\ UnchangedDisk
  /\ UnchangedUnits
  /\ UNCHANGED << proc, dproc, turn, nextId, restarts, acked, destroyed >>

(***************************************************************************)
(* GET /:deploymentId/steps                                                *)
(***************************************************************************)
\* the keys of the answer getDeploymentStatus builds from a record in
\* memory (deploymentService.js lines 490-498)
StatusOfRecordKeys ==
  {"deploymentId", "status", "timestamp", "publicUrl", "error", "progress",
   "instructions"}

\* the keys of the answers built from the artifacts (lines 556-565, 573-581)
StatusFromArtifactsKeys ==
  {"deploymentId", "status", "timestamp", "publicUrl", "error", "progress",
   "note"}

\* `status.steps || []` (part_003 line 268) on an answer with these keys
StepsOrEmpty(keys, steps) == IF "steps" \in keys THEN steps ELSE << >>

\* the 200 answer of the steps route
StepsReply(id, steps, toolOk) ==
  [NoReply EXCEPT !.api = "steps", !.deploymentId = id, !.code = 200,
                  !.steps = steps, !.toolOk = toolOk]

\* the 500 answer of the steps route (lines 275-281)
StepsFailed(id) ==
  [NoReply EXCEPT !.api = "steps", !.deploymentId = id, !.code = 500,
                  !.error = "Failed to get deployment steps"]

\* part_003 lines 263-283: the route asks getDeploymentStatus and answers
\* the steps of what it got
GetSteps(id, toolOk) ==
  /\ turn = 0
  /\ id < nextId
  /\ IF Has(id)
       THEN /\ ~toolOk
            /\ reply' = StepsReply(id, StepsOrEmpty(StatusOfRecordKeys,
                                                    Get(id).steps), toolOk)
            /\ UnchangedMemory
       ELSE IF ArtifactsFound(id)
         THEN IF GetTerraformOutputsThrows(toolOk)
                THEN /\ reply' = StepsReply(id,
                                   StepsOrEmpty(StatusFromArtifactsKeys, << >>),
                                   toolOk)
                     /\ UnchangedMemory
                ELSE LET r == Fresh
                     IN /\ deployments' = [deployments EXCEPT ![id] = r]
                        /\ heap' = [heap EXCEPT ![r] =
                                      ReconstructedDeployment(id, TemplateOutputs)]
                        /\ reply' = StepsReply(id,
                                      StepsOrEmpty(StatusFromArtifactsKeys,
                                                   GenerateDeploymentSteps),
                                      toolOk)
         ELSE /\ ~toolOk
              /\ reply' = StepsFailed(id)
              /\ UnchangedMemory
  /\ polled' = NoPoll
  /\ destroyRes' = NoRes
  /\ UnchangedDisk
  /\ UnchangedUnits
  /\ UNCHANGED << proc, dproc, turn, nextId, restarts, acked, destroyed >>

(***************************************************************************)
(* GET /:deploymentId/logs -> getDeploymentLogs                            *)
(***************************************************************************)
\* deployment.logs (line 606): no statement of the service gives a record a
\* logs field
LogsOfRecord(deployment) == Undefined

\* what the search for log files in the deployment directory can come to
\* (lines 616-648): none exists, one is read, or a read fails
LogFileOutcomes == {"none", "found", "unreadable"}

\* the list getDeploymentLogs returns, by the names of its entries
LogsReply(id, logs, toolOk) ==
  [NoReply EXCEPT !.api = "logs", !.deploymentId = id, !.code = 200,
                  !.logs = logs, !.toolOk = toolOk]

\* the catch block, lines 670-678: one error.log entry with the message is
\* returned instead of throwing
LogsCaught_Rethrow(id, message) ==
  [NoReply EXCEPT !.api = "logs", !.deploymentId = id, !.code = 500,
                  !.error = message]

LogsCaught(id, message) ==
  [NoReply EXCEPT !.api = "logs", !.deploymentId = id, !.code = 200,
                  !.logs = {"error.log"}, !.error = message]

\* lines 599-679 behind part_003 lines 289-308.  The directory is looked for
\* under TEMP_DIR or ./temp; with no log entry the answer of
\* getDeploymentStatus is turned into a deployment-status.log entry, and its
\* throw is caught like any other.
GetLogs(id, files, toolOk) ==
  /\ turn = 0
  /\ id < nextId
  /\ files # "none" => (id \in depDir /\ ~tempDirSet)
  /\ IF Has(id) /\ LogsOfRecord(Get(id)) # Undefined
       THEN /\ ~toolOk
            /\ reply' = LogsReply(id, {"deployment.logs"}, toolOk)
            /\ UnchangedMemory
       ELSE IF files = "unreadable"
         THEN /\ ~toolOk
              /\ reply' = LogsCaught(id, "EACCES: permission denied")
              /\ UnchangedMemory
       ELSE IF files = "found"
         THEN /\ ~toolOk
              /\ reply' = LogsReply(id, {"terraform.log"}, toolOk)
              /\ UnchangedMemory
       ELSE IF Has(id)
         THEN /\ ~toolOk
              /\ reply' = LogsReply(id, {"deployment-status.log"}, toolOk)
              /\ UnchangedMemory
       ELSE IF ArtifactsFound(id)
         THEN IF GetTerraformOutputsThrows(toolOk)
                THEN /\ reply' = LogsReply(id, {"deployment-status.log"}, toolOk)
                     /\ UnchangedMemory
                ELSE LET r == Fresh
                     IN /\ deployments' = [deployments EXCEPT ![id] = r]
                        /\ heap' = [heap EXCEPT ![r] =
                                      ReconstructedDeployment(id, TemplateOutputs)]
                        /\ reply' = LogsReply(id, {"deployment-status.log"},
                                              toolOk)
         ELSE /\ ~toolOk
              /\ reply' = LogsCaught(id, StatusNotFound(id).thrown)
              /\ UnchangedMemory
  /\ polled' = NoPoll
  /\ destroyRes' = NoRes
  /\ UnchangedDisk
  /\ UnchangedUnits
  /\ UNCHANGED << proc, dproc, turn, nextId, restarts, acked, destroyed >>

(***************************************************************************)
(* DELETE /:deploymentId -> destroyDeployment                              *)
(***************************************************************************)
\* what the route answers when destroyDeployment ends; step names the
\* statement it ended in, deprov that destroyInfrastructure got as far as
\* looking for the state file of this deployment
DestroyResult(id, res, step, provisioned, deprov) ==
  [deploymentId |-> id, res |-> res, step |-> step,
   provisioned |-> provisioned, deprov |-> deprov]

\* the catch block of destroyDeployment, lines 709-712: log and re-throw;
\* the record and the files stay
DestroyThrow_Swallow(id, step, deprov) ==
  /\ dproc' = [dproc EXCEPT ![id] = NoDestroy]
  /\ destroyRes' = DestroyResult(id, "ok", step, TRUE, deprov)
  /\ deployments' = [deployments EXCEPT ![id] = NoRef]
  /\ heap' = Collect(heap, deployments', proc)
  /\ depDir' = depDir \ {id}
  /\ UNCHANGED tfState

DestroyThrow(id, step, deprov) ==
  /\ dproc' = [dproc EXCEPT ![id] = NoDestroy]
  /\ destroyRes' = DestroyResult(id, "error", step, TRUE, deprov)
  /\ UnchangedMemory
  /\ UNCHANGED << depDir, tfState >>

\* lines 684-700.  destroyInfrastructure (nlpProcessor.js lines 1735-1743)
\* joins its argument into a path before anything else.  A missing record
\* throws "Deployment not found" and changes nothing.
DestroyCall(id) ==
  /\ turn = 0
  /\ id < nextId
  /\ dproc[id].pc = "idle"
  /\ IF ~Has(id)
       THEN /\ destroyRes' = DestroyResult(id, "not_found", "lookup", FALSE, FALSE)
            /\ UnchangedMemory
            /\ UNCHANGED << dproc, depDir, tfState, destroyed >>
       ELSE /\ destroyed' = destroyed \cup {id}
            /\ IF Get(id).infrastructure
                 THEN IF PathJoinThrows(DestroyInfrastructureArg(id))
                        THEN DestroyThrow(id, "path.join", FALSE)
                        ELSE /\ dproc' = [dproc EXCEPT ![id] =
                                            [pc |-> "x_deprov", deprov |-> TRUE]]
                             /\ destroyRes' = NoRes
                             /\ UnchangedMemory
                             /\ UNCHANGED << depDir, tfState >>
                 ELSE /\ dproc' = [dproc EXCEPT ![id] =
                                     [pc |-> "x_cleanup", deprov |-> FALSE]]
                      /\ destroyRes' = NoRes
                      /\ UnchangedMemory
                      /\ UNCHANGED << depDir, tfState >>
  /\ polled' = NoPoll
  /\ reply' = NoReply
  /\ UnchangedUnits
  /\ UNCHANGED << proc, turn, tempDirSet, nextId, restarts, acked >>

\* cleanupDeployment (fileSystem.js lines 60-76): the directory under
\* TEMP_DIR or ./temp is removed; a failure is logged and swallowed
CleanedUp(removed, id) ==
  /\ depDir' = IF removed THEN depDir \ {id} ELSE depDir
  /\ tfState' = IF removed /\ ~tempDirSet THEN tfState \ {id} ELSE tfState

\* destroyInfrastructure lines 1744-1782 (state file check, then
\* terraform destroy), then destroyDeployment lines 702-708
DestroyStep(id, ok) ==
  /\ turn = 0
  /\ dproc[id].pc \in {"x_deprov", "x_cleanup"}
  /\ IF dproc[id].pc = "x_deprov"
       THEN IF id \notin tfState
              THEN /\ dproc' = [dproc EXCEPT ![id].pc = "x_cleanup"]
                   /\ destroyRes' = NoRes
                   /\ UnchangedMemory
                   /\ UNCHANGED << depDir, tfState >>
              ELSE IF ok
                THEN /\ dproc' = [dproc EXCEPT ![id].pc = "x_cleanup"]
                     /\ destroyRes' = NoRes
                     /\ tfState' = tfState \ {id}
                     /\ UnchangedMemory
                     /\ UNCHANGED depDir
                ELSE DestroyThrow(id, "terraform destroy", TRUE)
       ELSE /\ CleanedUp(ok /\ id \in depDir, id)
            /\ deployments' = [deployments EXCEPT ![id] = NoRef]
            /\ heap' = Collect(heap, deployments', proc)
            /\ dproc' = [dproc EXCEPT ![id] = NoDestroy]
            /\ destroyRes' = DestroyResult(id, "ok", "delete",
                                           dproc[id].deprov, dproc[id].deprov)
  /\ polled' = NoPoll
  /\ reply' = NoReply
  /\ UnchangedUnits
  /\ UNCHANGED << proc, turn, tempDirSet, nextId, restarts, acked, destroyed >>

(***************************************************************************)
(* Intake validation in the routes (src/unnamed/part_003)                  *)
(***************************************************************************)
\* the fields of a request body the routes test: text is message (chat) or
\* description (analyze, deploy); other is the uploaded file (chat, analyze)
\* or analysisId (deploy)
IntakeBodies == [text : BOOLEAN, repositoryUrl : BOOLEAN, other : BOOLEAN]

IntakeRoutes == {"chat", "analyze", "deploy"}

\* the error of the 400 answer, or NoError when the body passes both tests
ValidateIntake_DescriptionOnly(route, body) ==
  IF ~body.text THEN "Missing required field: description"
  ELSE IF ~body.repositoryUrl /\ ~body.other
    THEN "Either repositoryUrl or codebase file must be provided"
  ELSE NoError

ValidateIntake(route, body) ==
  IF ~body.text
    THEN IF route = "chat" THEN "Missing required field: message"
         ELSE "Missing required field: description"
  ELSE IF ~body.repositoryUrl /\ ~body.other
    THEN IF route = "deploy"
           THEN "Either repositoryUrl or analysisId must be provided"
           ELSE "Either repositoryUrl or codebase file must be provided"
  ELSE NoError

\* a route draws its uuid, finds the body wanting and answers 400 without
\* calling the service (lines 37-54, 91-108, 152-169); the uuid is not used
IntakeRejected(route, body) ==
  /\ turn = 0
  /\ nextId <= MaxIds
  /\ ValidateIntake(route, body) # NoError
  /\ nextId' = nextId + 1
  /\ reply' = [NoReply EXCEPT !.api = "intake", !.code = 400,
                              !.route = route, !.body = body,
                              !.error = ValidateIntake(route, body)]
  /\ polled' = NoPoll
  /\ destroyRes' = NoRes
  /\ UnchangedMemory
  /\ UnchangedDisk
  /\ UnchangedUnits
  /\ UNCHANGED << proc, dproc, turn, restarts, acked, destroyed >>

(***************************************************************************)
(* Process restart: memory is lost, the files stay                         *)
(***************************************************************************)
Restart ==
  /\ turn = 0
  /\ restarts < MaxRestarts
  /\ nextId > 1
  /\ restarts' = restarts + 1
  /\ deployments' = [i \in Ids |-> NoRef]
  /\ heap' = [r \in Refs |-> NoObj]
  /\ proc' = [i \in Ids |-> NoProc]
  /\ dproc' = [i \in Ids |-> NoDestroy]
  /\ UnchangedDisk
  /\ Quiet
  /\ UnchangedUnits
  /\ UNCHANGED << turn, nextId, acked, destroyed >>

Next ==
  \/ ChatIntake
  \/ AnalyzeIntake
  \/ \E a \in {NoId} \cup (1..(nextId - 1)) : DeployIntake(a)
  \/ \E id \in Ids : ChatAnalyzing(id)
  \/ \E id \in Ids : ChatDeploying(id)
  \/ \E id \in Ids : ChatCompleting(id)
  \/ \E id \in Ids : ChatResponse(id)
  \/ \E id \in Ids : ChatCatch(id)
  \/ \E id \in Ids : AnalyzeFinish(id)
  \/ \E id \in Ids : DeployMark(id)
  \/ \E id \in Ids : DeployConfig(id)
  \/ \E id \in Ids : Provision(id)
  \/ \E id \in Ids : DeployFinish(id)
  \/ \E id \in Ids : DeployCatch(id)
  \/ \E id \in Ids, toolOk \in BOOLEAN : GetStatus(id, toolOk)
  \/ \E id \in Ids : DestroyCall(id)
  \/ \E id \in Ids, ok \in BOOLEAN : DestroyStep(id, ok)
  \/ Restart
  \/ \E route \in IntakeRoutes, body \in IntakeBodies : IntakeRejected(route, body)
  \/ \E id \in Ids, toolOk \in BOOLEAN : GetSteps(id, toolOk)
  \/ \E id \in Ids, files \in LogFileOutcomes, toolOk \in BOOLEAN :
       GetLogs(id, files, toolOk)

Spec == Init /\ [][Next]_vars

\* the next step of the handler working for id: the continuation of an
\* awaited collaborator call or tool run, or a synchronous statement
HandlerStep(id) ==
  \/ ChatAnalyzing(id) \/ ChatDeploying(id) \/ ChatCompleting(id)
  \/ ChatResponse(id) \/ ChatCatch(id)
  \/ AnalyzeFinish(id)
  \/ DeployMark(id) \/ DeployConfig(id) \/ Provision(id)
  \/ DeployFinish(id) \/ DeployCatch(id)

\* the calls that write: the intakes that are accepted, the steps of their
\* handlers, destroy and a restart of the process.  The status, steps and
\* logs calls and a rejected intake store nothing a handler reads.
WriteNext ==
  \/ ChatIntake
  \/ AnalyzeIntake
  \/ \E a \in {NoId} \cup (1..(nextId - 1)) : DeployIntake(a)
  \/ \E id \in Ids : HandlerStep(id)
  \/ \E id \in Ids : DestroyCall(id)
  \/ \E id \in Ids, ok \in BOOLEAN : DestroyStep(id, ok)
  \/ Restart

\* every awaited call returns or fails and the event loop runs every
\* continuation that is ready: no handler waits for ever
FairSpec ==
  Init /\ [][WriteNext]_vars /\ \A id \in Ids : WF_vars(HandlerStep(id))

(***************************************************************************)
(* Units followed in isolation: the command sequence of                    *)
(* TerraformService.applyInfrastructure                                    *)
(***************************************************************************)
MaxExit == 1         \* largest exit code a terraform command ends with

ExitCodes == 0..MaxExit

\* what a command may have written to a stream: nothing, or some text
Captured(text) == {"", text}

\* a || b on strings: the empty string is falsy
OrElse(a, b) == IF a # "" THEN a ELSE b

\* the commands applyInfrastructure awaits, in the order of its statements
TerraformCommands == << "init", "plan", "apply -auto-approve", "output -json" >>

\* the Error runTerraformCommand rejects with on a close with code # 0
TerraformError_StdoutFirst(code, stderr, stdout) ==
  [kind |-> "exit", code |-> code, payload |-> OrElse(stdout, stderr)]

TerraformError(code, stderr, stdout) ==
  [kind |-> "exit", code |-> code, payload |-> OrElse(stderr, stdout)]

\* the handlers of the service are not running while a unit is followed
UnchangedService ==
  UNCHANGED << deployments, heap, proc, dproc, turn, depDir, tfState,
               tempDirSet, nextId, restarts, acked, destroyed, polled,
               destroyRes, reply >>

\* applyInfrastructure lines 1560-1600: directory, templates, AMI id and
\* environment are prepared; the first command is next
ApplyInfrastructureBegin ==
  /\ tf.pc = "none"
  /\ unit = NoCall
  /\ tf' = [NoRun EXCEPT !.pc = "run"]
  /\ UNCHANGED unit
  /\ UnchangedService

\* one await of runTerraformCommand in applyInfrastructure (lines 1602-1625)
\* with the child process ending as given: event "error" is a failed spawn,
\* event "close" an exit with the code.  A rejection leaves applyInfrastructure
\* through its catch block (lines 1641-1648); after output -json the text is
\* parsed as JSON (line 1627), which throws on the empty string.
RunTerraformCommand(event, code, stderr, stdout) ==
  /\ tf.pc = "run"
  /\ LET i == Len(tf.ran) + 1
         started == [tf EXCEPT !.ran = Append(@, TerraformCommands[i]),
                               !.stderr = stderr, !.stdout = stdout]
     IN tf' =
          IF event = "error"
            THEN [started EXCEPT !.pc = "failed",
                                 !.error = [kind |-> "spawn", code |-> 0,
                                            payload |-> "spawn"]]
          ELSE IF code # 0
            THEN [started EXCEPT !.pc = "failed",
                                 !.exits = Append(@, code),
                                 !.error = TerraformError(code, stderr, stdout)]
          ELSE IF i < Len(TerraformCommands)
            THEN [started EXCEPT !.exits = Append(@, code)]
          ELSE IF stdout = ""
            THEN [started EXCEPT !.pc = "failed",
                                 !.exits = Append(@, code),
                                 !.error = [kind |-> "SyntaxError", code |-> 0,
                                            payload |-> "JSON.parse"]]
          ELSE [started EXCEPT !.pc = "done", !.exits = Append(@, code)]
  /\ UNCHANGED unit
  /\ UnchangedService

(***************************************************************************)
(* Units followed in isolation: InfrastructureManager's strategy engine    *)
(* (src/unnamed/part_002)                                                  *)
(***************************************************************************)
\* the keys of this.deploymentStrategies
StrategyTypes == {"static", "serverless", "container", "vm", "kubernetes"}

\* an array field of an analysis: absent (undefined), or an array with items
Missing == [present |-> FALSE, items |-> {}]
Array(items) == [present |-> TRUE, items |-> items]

\* the dependencies object: absent, or an object with that many keys
Dependencies(count) == [present |-> TRUE, count |-> count]
NoDependencies == [present |-> FALSE, count |-> 0]

\* what a helper hands back: a value, or a TypeError from reading a property
\* of undefined
Value(v) == [thrown |-> FALSE, value |-> v]
TypeErrorThrown == [thrown |-> TRUE, value |-> FALSE]

\* shouldUseServerless: hasStatelessArchitecture is computed first
ShouldUseServerless(codeAnalysis, nlpAnalysis) ==
  IF ~codeAnalysis.databaseRequirements.present THEN TypeErrorThrown
  ELSE Value(/\ codeAnalysis.framework \in {"flask", "fastapi", "express"}
             /\ "sqlite" \notin codeAnalysis.databaseRequirements.items
             /\ codeAnalysis.dependencies.present
             /\ codeAnalysis.dependencies.count < 10
             /\ nlpAnalysis.estimatedTraffic # "high")

\* shouldUseContainer: a chain of ||, evaluated left to right
ShouldUseContainer(codeAnalysis, nlpAnalysis) ==
  IF codeAnalysis.dockerized THEN Value(TRUE)
  ELSE IF ~codeAnalysis.databaseRequirements.present THEN TypeErrorThrown
  ELSE Value(\/ Cardinality(codeAnalysis.databaseRequirements.items) > 0
             \/ nlpAnalysis.scalingRequirements = "high"
             \/ codeAnalysis.framework \in {"django", "spring-boot", "laravel"})

\* shouldUseKubernetes: a chain of ||, evaluated left to right
ShouldUseKubernetes(codeAnalysis, nlpAnalysis) ==
  IF nlpAnalysis.estimatedTraffic = "high" THEN Value(TRUE)
  ELSE IF nlpAnalysis.scalingRequirements = "high" THEN Value(TRUE)
  ELSE IF ~codeAnalysis.databaseRequirements.present THEN TypeErrorThrown
  ELSE IF Cardinality(codeAnalysis.databaseRequirements.items) > 1 THEN Value(TRUE)
  ELSE IF ~nlpAnalysis.requirements.present THEN TypeErrorThrown
  ELSE Value("high-availability" \in nlpAnalysis.requirements.items)

\* the static test of the second branch
LooksStatic(codeAnalysis) ==
  \/ codeAnalysis.appType = "static"
  \/ codeAnalysis.staticFiles /\ codeAnalysis.appType = Undefined

\* generateStrategyDetails: the generator looked up by type, when there is one
StrategyInfrastructure(type) ==
  CASE type = "static" -> "cdn"
    [] type \in StrategyTypes \ {"static"} -> type
    [] OTHER -> "{}"

StrategyComplexity(type) ==
  CASE type = "static" -> "low"
    [] type = "kubernetes" -> "high"
    [] OTHER -> "medium"

\* the strategy returned for a type chosen with a reasoning string
Strategy(type, reason) ==
  [thrown |-> FALSE, type |-> type, reasoning |-> << reason >>,
   infrastructure |-> StrategyInfrastructure(type),
   complexity |-> StrategyComplexity(type)]

\* the catch block: Error("Strategy determination failed: ...")
StrategyFailed ==
  [thrown |-> TRUE, type |-> "none", reasoning |-> << >>,
   infrastructure |-> "none", complexity |-> "none"]

\* branches 2 to 6 of determineDeploymentStrategy (lines 43-80)
HeuristicStrategy(codeAnalysis, nlpAnalysis) ==
  LET serverless == ShouldUseServerless(codeAnalysis, nlpAnalysis)
      container == ShouldUseContainer(codeAnalysis, nlpAnalysis)
      kubernetes == ShouldUseKubernetes(codeAnalysis, nlpAnalysis)
  IN IF LooksStatic(codeAnalysis)
       THEN Strategy("static", "Static files detected - optimal for CDN deployment")
     ELSE IF serverless.thrown THEN StrategyFailed
     ELSE IF serverless.value
       THEN Strategy("serverless", "Suitable for serverless architecture")
     ELSE IF container.thrown THEN StrategyFailed
     ELSE IF container.value
       THEN Strategy("container",
                     "Application is containerized or suitable for containers")
     ELSE IF kubernetes.thrown THEN StrategyFailed
     ELSE IF kubernetes.value
       THEN Strategy("kubernetes", "Complex application requiring orchestration")
     ELSE Strategy("vm", "Standard VM deployment for flexibility")

\* determineDeploymentStrategy
DetermineDeploymentStrategy_HeuristicFirst(codeAnalysis, nlpAnalysis) ==
  LET guess == HeuristicStrategy(codeAnalysis, nlpAnalysis)
  IN IF ~guess.thrown /\ guess.type # "vm" THEN guess
     ELSE IF nlpAnalysis.deploymentType # Null
       THEN Strategy(nlpAnalysis.deploymentType, "User requested deployment")
     ELSE guess

DetermineDeploymentStrategy(codeAnalysis, nlpAnalysis) ==
  IF nlpAnalysis.deploymentType # Null
    THEN Strategy(nlpAnalysis.deploymentType, "User requested deployment")
    ELSE HeuristicStrategy(codeAnalysis, nlpAnalysis)

\* code analyses: the fields the engine reads, each also absent
CodeAnalyses ==
  [appType : {"static", "flask", Undefined},
   staticFiles : BOOLEAN,
   dockerized : BOOLEAN,
   framework : {"flask", "django", "gin"},
   databaseRequirements : {Missing} \cup {Array(d) : d \in SUBSET {"sqlite", "postgresql"}},
   dependencies : {NoDependencies, Dependencies(2), Dependencies(10)}]

\* intent analyses: deploymentType is null, one of the engine's types, or any
\* other text (the Gemini answer is merged in unvalidated, nlpProcessor.js
\* lines 176-181)
NlpAnalyses ==
  [deploymentType : {Null, "paas"} \cup StrategyTypes,
   estimatedTraffic : {"low", "high"},
   scalingRequirements : {"low", "high"},
   requirements : {Missing, Array({}), Array({"high-availability"})}]

StrategyCalls ==
  [fn : {"determineDeploymentStrategy"}, done : {FALSE},
   codeAnalysis : CodeAnalyses, nlpAnalysis : NlpAnalyses,
   result : {StrategyFailed}]

\* a call of determineDeploymentStrategy returns or throws
DecideStrategy ==
  /\ unit.fn = "determineDeploymentStrategy"
  /\ ~unit.done
  /\ unit' = [unit EXCEPT
                !.done = TRUE,
                !.result = DetermineDeploymentStrategy(unit.codeAnalysis,
                                                       unit.nlpAnalysis)]
  /\ UNCHANGED tf
  /\ UnchangedService

(***************************************************************************)
(* Units followed in isolation: configuration assembly, public URL and     *)
(* progress                                                                *)
(***************************************************************************)
NoPort == 0          \* port: null (falsy, like an absent field)
DefaultPort == 8080  \* the literal in `... || 8080`

\* a || b on numbers and absent values
NumOr(a, b) == IF a # NoPort THEN a ELSE b

\* generateDeploymentConfig (part_002 lines 106-143), the fields that carry
\* the application port and the framework; the object has no field `port`
GenerateDeploymentConfig(codeAnalysis) ==
  [framework |-> IF codeAnalysis.framework # Null THEN codeAnalysis.framework
                 ELSE "flask",
   appPort |-> NumOr(codeAnalysis.port, DefaultPort),
   applicationPort |-> NumOr(codeAnalysis.port, DefaultPort),
   port |-> NoPort]

\* the own fields of the object applyInfrastructure resolves with
InfrastructureResultKeys == {"success", "outputs", "publicUrl", "message"}

\* a URL: where its host comes from and the port appended to it (NoPort when
\* the text is taken as reported)
Url(host, port) == [host |-> host, port |-> port]

\* generatePublicUrl(infrastructure, deploymentConfig), part_002 lines
\* 545-582: keys are the fields of its first argument
GeneratePublicUrl(keys, deploymentConfig) ==
  IF "application_url" \in keys THEN Url("application_url", NoPort)
  ELSE IF "instance_public_ip" \in keys
    THEN Url("instance_public_ip", NumOr(deploymentConfig.port, DefaultPort))
  ELSE IF "instance_public_dns" \in keys
    THEN Url("instance_public_dns", NumOr(deploymentConfig.port, DefaultPort))
  ELSE Url("fabricated", NumOr(deploymentConfig.port, DefaultPort))

\* deployApplication lines 156-173: deployToInfrastructure hands the whole
\* result object of applyInfrastructure to generatePublicUrl
PublicUrl(outputs, deploymentConfig) ==
  IF "application_url" \in outputs THEN Url("application_url", NoPort)
  ELSE IF "instance_public_ip" \in outputs
    THEN Url("instance_public_ip", NumOr(deploymentConfig.port, DefaultPort))
  ELSE GeneratePublicUrl(InfrastructureResultKeys, deploymentConfig)

\* the part of a code analysis the assembler's port and framework come from
PortAnalyses ==
  [framework : {"flask", "spring-boot", "express", "gin", Null},
   port : {NoPort, 3000, 5000, 8000}]

\* the outputs a public URL can be derived from
UrlOutputs == {"application_url", "instance_public_ip", "instance_public_dns"}

\* the values of a record's status field
RecordStatuses ==
  {"initializing", "analyzing", "analyzed", "deploying", "completing",
   "completed", "deployed", "failed", "unknown"}

ConfigCalls ==
  [fn : {"generateDeploymentConfig"}, done : {FALSE},
   codeAnalysis : PortAnalyses, result : {GenerateDeploymentConfig(
                                             [framework |-> Null, port |-> NoPort])}]

UrlCalls ==
  [fn : {"publicUrl"}, done : {FALSE}, codeAnalysis : PortAnalyses,
   outputs : SUBSET UrlOutputs, result : {Url("none", NoPort)}]

ProgressCalls ==
  [fn : {"calculateProgress"}, done : {FALSE}, status : RecordStatuses,
   result : {0}]

\* a call of generateDeploymentConfig returns
AssembleConfig ==
  /\ unit.fn = "generateDeploymentConfig"
  /\ ~unit.done
  /\ unit' = [unit EXCEPT !.done = TRUE,
                          !.result = GenerateDeploymentConfig(unit.codeAnalysis)]
  /\ UNCHANGED tf
  /\ UnchangedService

\* deployApplication derives the public URL from the outputs of a successful
\* applyInfrastructure and the assembled configuration
DerivePublicUrl ==
  /\ unit.fn = "publicUrl"
  /\ ~unit.done
  /\ unit' = [unit EXCEPT
                !.done = TRUE,
                !.result = PublicUrl(unit.outputs,
                                     GenerateDeploymentConfig(unit.codeAnalysis))]
  /\ UNCHANGED tf
  /\ UnchangedService

\* a call of calculateProgress returns
ReportProgress ==
  /\ unit.fn = "calculateProgress"
  /\ ~unit.done
  /\ unit' = [unit EXCEPT !.done = TRUE,
                          !.result = CalculateProgress(unit.status)]
  /\ UNCHANGED tf
  /\ UnchangedService

(***************************************************************************)
(* Where the files of a deployment are looked for, written and removed     *)
(***************************************************************************)
\* process.cwd(), as path segments from the root
Cwd == << "/", "app" >>

\* what process.env.TEMP_DIR can hold
TempDirSettings == {Undefined, "", "./temp", "temp", "/srv/deployments"}

\* a path text as normalised segments; an absolute one starts at "/"
PathSegments(text) ==
  CASE text = "./temp" -> << "temp" >>
    [] text = "temp" -> << "temp" >>
    [] text = "/srv/deployments" -> << "/", "srv", "deployments" >>

PathJoin(base, segments) == base \o segments

\* a relative path is taken from the working directory of the process
PathResolve(p) == IF Len(p) > 0 /\ p[1] = "/" THEN p ELSE Cwd \o p

\* `process.env.TEMP_DIR || "./temp"`
TempDir(env) == IF env \in {Undefined, ""} THEN "./temp" ELSE env

\* getDeploymentStatus, deploymentService.js lines 502-507
StatusStateFile(env, id) ==
  LET deploymentDir == PathJoin(PathSegments(TempDir(env)), << ToString(id) >>)
      terraformDir == PathJoin(deploymentDir, << "hello_world", "terraform" >>)
  IN PathJoin(terraformDir, << "terraform.tfstate" >>)

\* applyInfrastructure, nlpProcessor.js lines 1562-1568
ApplyDir(id) ==
  PathJoin(Cwd, << "temp", ToString(id), "hello_world", "terraform" >>)

\* destroyInfrastructure, nlpProcessor.js lines 1737-1743
DestroyDir(id) ==
  PathJoin(Cwd, << "temp", ToString(id), "hello_world", "terraform" >>)

\* cleanupDeployment, fileSystem.js lines 61-62
CleanupDir(env, id) ==
  PathJoin(PathSegments(TempDir(env)), << ToString(id) >>)

NoPaths == [status |-> << >>, apply |-> << >>, destroy |-> << >>,
            cleanup |-> << >>]

PathCalls ==
  [fn : {"paths"}, done : {FALSE}, env : TempDirSettings, id : Ids,
   result : {NoPaths}]

\* the four places are computed for one deployment under one setting
LocateDeployment ==
  /\ unit.fn = "paths"
  /\ ~unit.done
  /\ unit' = [unit EXCEPT
       !.done = TRUE,
       !.result = [status |-> PathResolve(StatusStateFile(unit.env, unit.id)),
                   apply |-> PathResolve(ApplyDir(unit.id)),
                   destroy |-> PathResolve(DestroyDir(unit.id)),
                   cleanup |-> PathResolve(CleanupDir(unit.env, unit.id))]]
  /\ UNCHANGED tf
  /\ UnchangedService

(***************************************************************************)
(* The templates: generated from a configuration, written by the driver    *)
(***************************************************************************)
\* a || b where a is a text or absent
TextOr(a, b) == IF a \in {Undefined, Null, ""} THEN b ELSE a

\* the kinds of application a code analysis reports
AppKinds ==
  {[framework |-> "flask", language |-> "python", appType |-> "flask"],
   [framework |-> "express", language |-> "javascript", appType |-> "node"],
   [framework |-> "spring-boot", language |-> "java", appType |-> "java"],
   [framework |-> Null, language |-> Null, appType |-> Null]}

\* what an analysis result holds of what the templates depend on
TemplateAnalyses ==
  [codeAnalysis :
     {[framework |-> k.framework, language |-> k.language,
       appType |-> k.appType, port |-> p] :
        k \in AppKinds, p \in {NoPort, 3000, 5000}},
   repositoryUrl : {Undefined, "https://github.com/acme/shop"}]

\* generateDeploymentConfig, part_002 lines 106-116: the fields of the
\* assembled configuration the templates read
DeploymentConfig(analysis) ==
  [repositoryUrl |-> TextOr(analysis.repositoryUrl,
                            "https://github.com/Arvo-AI/hello_world"),
   appType |-> TextOr(analysis.codeAnalysis.appType, "python"),
   framework |-> TextOr(analysis.codeAnalysis.framework, "flask"),
   language |-> TextOr(analysis.codeAnalysis.language, "python"),
   appPort |-> NumOr(analysis.codeAnalysis.port, 8080)]

\* the object deployApplication hands to applyInfrastructure as its first
\* argument (deploymentService.js lines 148-151): deploymentId and
\* workingDirectory, none of the fields the templates read
DriverConfig ==
  [repositoryUrl |-> Undefined, appType |-> Undefined, framework |-> Undefined,
   language |-> Undefined, appPort |-> NoPort]

\* generateUserDataScript, nlpProcessor.js lines 1184-1431: the branch of the
\* script's outer if, and the repository and port substituted into it
GenerateUserDataScript(config) ==
  LET repositoryUrl == TextOr(config.repositoryUrl,
                              "https://github.com/Arvo-AI/hello_world")
      appPort == NumOr(config.appPort, 8080)
      framework == TextOr(config.framework, "")
      language == TextOr(config.language, "")
      appType == TextOr(config.appType, "")
  IN [branch |->
        IF \/ framework = "flask" \/ framework = "django"
           \/ language = "python" \/ appType = "python"
          THEN "python"
        ELSE IF framework = "express" \/ framework = "node" \/ appType = "node"
          THEN "node"
        ELSE "generic",
      repositoryUrl |-> repositoryUrl,
      appPort |-> appPort]

\* generateMainTerraform, lines 1025-1182: the script it embeds and the
\* from_port/to_port of its four ingress blocks
GenerateMainTerraform(config) ==
  [userData |-> GenerateUserDataScript(config), ingress |-> {22, 80, 443, 8080}]

\* generateOutputsTerraform, lines 1483-1522: the port of application_url
GenerateOutputsTerraform(config) ==
  [applicationUrlPort |-> NumOr(config.appPort, 8080)]

\* generateTerraformConfig, lines 1002-1023
GenerateTerraformConfig(deploymentConfig) ==
  [main |-> GenerateMainTerraform(deploymentConfig),
   outputs |-> GenerateOutputsTerraform(deploymentConfig)]

TemplateCalls ==
  [fn : {"templates"}, done : {FALSE}, analysis : TemplateAnalyses,
   result : {[assembled |-> DriverConfig,
              generated |-> GenerateTerraformConfig(DriverConfig),
              written |-> GenerateTerraformConfig(DriverConfig)]}]

\* deployApplication, deploymentService.js lines 134-153: the configuration
\* is assembled, templates are generated from it (line 143) and handed to
\* applyInfrastructure as a second argument; applyInfrastructure takes one
\* parameter and writes the templates it generates from that
\* (nlpProcessor.js lines 1560, 1574-1581)
WriteTemplates ==
  /\ unit.fn = "templates"
  /\ ~unit.done
  /\ LET deploymentConfig == DeploymentConfig(unit.analysis)
     IN unit' = [unit EXCEPT
          !.done = TRUE,
          !.result = [assembled |-> deploymentConfig,
                      generated |-> GenerateTerraformConfig(deploymentConfig),
                      written |-> GenerateTerraformConfig(DriverConfig)]]
  /\ UNCHANGED tf
  /\ UnchangedService

UnitCalls ==
  StrategyCalls \cup ConfigCalls \cup UrlCalls \cup ProgressCalls \cup PathCalls
    \cup TemplateCalls

UnitInit == InitService /\ tf = NoRun /\ unit \in {NoCall} \cup UnitCalls

UnitNext ==
  \/ ApplyInfrastructureBegin
  \/ DecideStrategy
  \/ AssembleConfig
  \/ DerivePublicUrl
  \/ ReportProgress
  \/ LocateDeployment
  \/ WriteTemplates
  \/ \E event \in {"close", "error"}, code \in ExitCodes,
        stderr \in Captured("stderr text"), stdout \in Captured("stdout text") :
       RunTerraformCommand(event, code, stderr, stdout)

UnitSpec == UnitInit /\ [][UnitNext]_vars

(***************************************************************************)
(* Properties                                                              *)
(***************************************************************************)
SevenStatuses ==
  {"initializing", "analyzing", "deploying", "completing", "completed",
   "deployed", "failed"}

TerminalSuccess == {"completed", "deployed"}

OneStepForward(s, t) ==
  \/ s = "initializing" /\ t = "analyzing"
  \/ s = "analyzing" /\ t = "deploying"
  \/ s = "deploying" /\ t = "completing"
  \/ s = "completing" /\ t \in TerminalSuccess
  \/ s \notin (TerminalSuccess \cup {"failed"}) /\ t = "failed"

\* C1: every change of the status of the record stored under an id is one
\* step forward along initializing, analyzing, deploying, completing,
\* completed/deployed, or a move to failed from a non-terminal state, and
\* the status is always one of the seven values.
C1_StatusOnlyForward ==
  [][\A id \in Ids :
       /\ Has(id)' => Get(id)'.status \in SevenStatuses
       /\ (Has(id) /\ Has(id)') =>
            \/ Get(id)'.status = Get(id).status
            \/ OneStepForward(Get(id).status, Get(id)'.status)]_vars

IsSet(url) == url \notin {Undefined, Null}

\* C2: a stored record has a publicUrl exactly when its status is completed
\* or deployed.
C2_PublicUrlIffSuccess ==
  \A id \in Ids :
    Has(id) => (IsSet(Get(id).publicUrl) <=> Get(id).status \in TerminalSuccess)

\* new is old with steps appended or updated in place by id
StepsKept(old, new) ==
  /\ Len(new) >= Len(old)
  /\ \A i \in 1..Len(old) : new[i].id = old[i].id

\* C3: no operation shortens the steps of the record stored under an id or
\* drops one of its steps.
C3_StepsNeverTruncated ==
  [][\A id \in Ids :
       (Has(id) /\ Has(id)') => StepsKept(Get(id).steps, Get(id)'.steps)]_vars

\* C4: every key of the table maps to a record of its own, whose deploymentId
\* is the key.
C4_IdKeysOneRecord ==
  \A id \in Ids :
    Has(id) =>
      /\ Get(id).deploymentId = id
      /\ \A other \in Ids \ {id} : deployments[other] # deployments[id]

\* C5: once the record stored under an id is failed, no operation changes its
\* status.
C5_NoResurrection ==
  [][\A id \in Ids :
       (Has(id) /\ Get(id).status = "failed" /\ Has(id)')
         => Get(id)'.status = "failed"]_vars

\* C6: when a phase of a chat deployment throws, only catch blocks run next
\* (no later phase is started), and the catch block of processChatDeployment
\* leaves the record failed with the thrown message as its error and
\* re-throws.
C6_ChatFailureRecorded ==
  [][\A id \in Ids :
       /\ (proc[id].kind = "chat" /\ proc[id].err # NoError) =>
            /\ proc'[id].pc \in {"c_catch", "done"}
            /\ proc'[id].started \subseteq proc[id].started
       /\ (proc[id].pc = "c_catch" /\ proc'[id].pc = "done") =>
            /\ proc[id].err # NoError
            /\ Has(id)'
            /\ Get(id)'.status = "failed"
            /\ Get(id)'.error = proc[id].err
            /\ proc'[id].rethrown]_vars

C6_Witness ==
  \E id \in Ids :
    /\ proc[id].kind = "chat" /\ proc[id].pc = "done" /\ proc[id].rethrown
    /\ Has(id) /\ Get(id).status = "failed"
    /\ Get(id).error = "Terraform command failed"

\* C7: a status poll for an id that an intake call has answered with, and for
\* which destroy has not been called, returns a record and does not throw.
C7_PollNeverNotFound ==
  (polled.deploymentId \in acked \ destroyed) => polled.thrown = NoError

\* C8: a poll answered from the artifacts on disk reports completed with a
\* publicUrl when the tool outputs are retrievable, and a status that is
\* neither completed nor failed when they are not.
C8_Reconciliation ==
  polled.note # Undefined =>
    IF polled.toolOk
      THEN polled.status = "completed" /\ IsSet(polled.publicUrl)
      ELSE polled.status \notin {"completed", "failed"}

\* C9: destroy of a provisioned record runs the driver's deprovision for the
\* id; it fails only when terraform destroy fails, and when it succeeds the
\* id is gone from the table.
C9_DestroyDeprovisions ==
  destroyRes.provisioned =>
    /\ destroyRes.deprov
    /\ destroyRes.res = "error" => destroyRes.step = "terraform destroy"
    /\ destroyRes.res = "ok" => ~Has(destroyRes.deploymentId)

ThrowSteps == {"path.join", "terraform destroy"}

\* C10: when deprovision throws during destroy(id), the record stays in the
\* table as it was, nothing on disk is removed, the caller gets the error and
\* destroy can be called again.
C10_DestroyFailureKeepsRecord ==
  [][destroyRes'.step \in ThrowSteps =>
       LET id == destroyRes'.deploymentId
       IN /\ destroyRes'.res = "error"
          /\ Has(id) /\ deployments' = deployments /\ heap' = heap
          /\ depDir' = depDir /\ tfState' = tfState
          /\ dproc'[id].pc = "idle"]_vars

C10_Witness ==
  /\ destroyRes.step \in ThrowSteps
  /\ destroyRes.res = "error"
  /\ Has(destroyRes.deploymentId)
  /\ Get(destroyRes.deploymentId).infrastructure
  /\ destroyRes.deploymentId \in tfState

\* C11: a destroy that ends for an id whose record was in memory and whose
\* terraform.tfstate is not on disk answers ok, has deleted the record and has
\* not run terraform destroy, whether or not the record carries an
\* infrastructure field.
C11_DestroyWithoutStateSucceeds ==
  [][\A id \in Ids :
       (/\ destroyRes'.deploymentId = id
        /\ destroyRes'.res # "not_found"
        /\ id \notin tfState)
         => /\ destroyRes'.res = "ok"
            /\ ~Has(id)'
            /\ destroyRes'.step # "terraform destroy"]_vars


\* the commands started are the first ones of the fixed order, each after
\* every earlier one has closed with code 0
InOrder(run) ==
  /\ Len(run.ran) <= Len(TerraformCommands)
  /\ \A i \in 1..Len(run.ran) :
       /\ run.ran[i] = TerraformCommands[i]
       /\ \A j \in 1..(i - 1) : j <= Len(run.exits) /\ run.exits[j] = 0

\* C12: the commands of provision run in the order init, plan, apply
\* -auto-approve, output -json, each started only after every earlier one
\* exited with code 0; after a non-zero exit no further command is started
\* and provision has failed with an error that carries the exit code and the
\* captured stderr, or stdout when stderr is empty.
C12_ToolStepsInOrder ==
  /\ InOrder(tf)
  /\ \A i \in 1..Len(tf.exits) :
       tf.exits[i] # 0 =>
         /\ i = Len(tf.ran)
         /\ tf.pc = "failed"
         /\ tf.error.kind = "exit"
         /\ tf.error.code = tf.exits[i]
         /\ tf.error.payload = (IF tf.stderr # "" THEN tf.stderr ELSE tf.stdout)
  /\ tf.pc = "done" =>
       /\ tf.ran = TerraformCommands
       /\ \A i \in 1..Len(tf.exits) : tf.exits[i] = 0

\* apply exits with a code other than 0 having written only to stdout
C12_Witness ==
  /\ tf.pc = "failed"
  /\ Len(tf.ran) = 3 /\ Len(tf.exits) = 3
  /\ tf.exits[3] # 0
  /\ tf.stderr = "" /\ tf.stdout # ""
  /\ tf.error.payload = tf.stdout

\* a phase sequence is running for the id
Running(id) == proc[id].pc \notin {"none", "done"}

\* the records the sequence running for the id reads and writes: the one
\* stored under its id and the one its analysisResult refers to
WorkedOn(id) == {deployments[id], proc[id].ar} \ {NoRef}

\* C13: no two phase sequences run at the same time against the same record;
\* a deploy is not started on a record another sequence is still working on.
C13_OneSequencePerRecord ==
  \A a \in Ids : \A b \in Ids \ {a} :
    (Running(a) /\ Running(b)) => WorkedOn(a) \cap WorkedOn(b) = {}

\* C14: a step of the phase sequence running for id a leaves every field of
\* the record stored under any other id b as it was.
C14_IdsIndependent ==
  [][\A a \in Ids : \A b \in Ids \ {a} :
       (/\ Running(a) /\ proc'[a] # proc[a] /\ proc'[b] = proc[b]
        /\ Has(b) /\ Has(b)')
         => Get(b)' = Get(b)]_vars

\* a call of determineDeploymentStrategy has ended
Decided == unit.fn = "determineDeploymentStrategy" /\ unit.done

\* both analyses carry every field the engine reads
AllFieldsPresent ==
  /\ unit.codeAnalysis.databaseRequirements.present
  /\ unit.nlpAnalysis.requirements.present

\* C15: every call of decideStrategy on analyses that carry all their fields
\* returns a strategy whose type is one of static, serverless, container, vm,
\* kubernetes, whatever deploymentType the intent analysis holds.
C15_StrategyTypeIsOneOfFive ==
  (Decided /\ AllFieldsPresent) =>
    (~unit.result.thrown /\ unit.result.type \in StrategyTypes)

\* the type the decision order asks for when no helper throws
FirstMatch(codeAnalysis, nlpAnalysis) ==
  IF nlpAnalysis.deploymentType # Null THEN nlpAnalysis.deploymentType
  ELSE IF LooksStatic(codeAnalysis) THEN "static"
  ELSE IF ShouldUseServerless(codeAnalysis, nlpAnalysis).value THEN "serverless"
  ELSE IF ShouldUseContainer(codeAnalysis, nlpAnalysis).value THEN "container"
  ELSE IF ShouldUseKubernetes(codeAnalysis, nlpAnalysis).value THEN "kubernetes"
  ELSE "vm"

\* C16: a call that returns has the type of the first matching rule in the
\* order explicit deployment type, static, serverless, container, kubernetes,
\* vm, with exactly one reasoning string; an explicit deploymentType always
\* returns and is the type.
C16_FirstMatchingRuleWins ==
  Decided =>
    /\ ~unit.result.thrown =>
         /\ unit.result.type = FirstMatch(unit.codeAnalysis, unit.nlpAnalysis)
         /\ Len(unit.result.reasoning) = 1
    /\ unit.nlpAnalysis.deploymentType # Null =>
         /\ ~unit.result.thrown
         /\ unit.result.type = unit.nlpAnalysis.deploymentType

\* an explicit type wins over code that the static rule would match
C16_Witness ==
  /\ Decided
  /\ unit.nlpAnalysis.deploymentType = "container"
  /\ LooksStatic(unit.codeAnalysis)
  /\ unit.result.type = "container"
  /\ Len(unit.result.reasoning) = 1

\* C17: no call of decideStrategy throws; a call with databaseRequirements or
\* requirements missing, no explicit type and no static content returns vm.
C17_StrategyNeverRaises ==
  Decided =>
    /\ ~unit.result.thrown
    /\ (/\ unit.nlpAnalysis.deploymentType = Null
        /\ ~LooksStatic(unit.codeAnalysis)
        /\ \/ ~unit.codeAnalysis.databaseRequirements.present
           \/ ~unit.nlpAnalysis.requirements.present)
         => unit.result.type = "vm"

\* the public URL has been derived for a deployment
UrlDerived == unit.fn = "publicUrl" /\ unit.done

\* the application port of the configuration assembled for the call
ConfiguredPort == GenerateDeploymentConfig(unit.codeAnalysis).appPort

\* C18: the public URL after a successful deploy is the reported
\* application_url if present, else the public address with the configured
\* application port, else the public DNS name with the configured application
\* port; it is fabricated only when none of the three outputs is present.
C18_PublicUrlPrecedence ==
  UrlDerived =>
    IF "application_url" \in unit.outputs
      THEN unit.result.host = "application_url"
    ELSE IF "instance_public_ip" \in unit.outputs
      THEN unit.result = Url("instance_public_ip", ConfiguredPort)
    ELSE IF "instance_public_dns" \in unit.outputs
      THEN unit.result = Url("instance_public_dns", ConfiguredPort)
    ELSE unit.result.host = "fabricated"

\* a call of calculateProgress has returned
ProgressReported == unit.fn = "calculateProgress" /\ unit.done

\* C19: the progress of a record is a function of its status in which failed
\* gives 100 and analyzed gives the lowest value above 0 that any status gives.
C19_ProgressMapping ==
  ProgressReported =>
    /\ unit.result = CalculateProgress(unit.status)
    /\ unit.status = "failed" => unit.result = 100
    /\ unit.status = "analyzed" =>
         /\ unit.result > 0
         /\ \A s \in RecordStatuses :
              CalculateProgress(s) > 0 => unit.result <= CalculateProgress(s)

\* progress has been computed for an analyzed record, and it is below that of
\* a deploying one
C19_Witness ==
  /\ ProgressReported
  /\ unit.status = "analyzed"
  /\ unit.result > 0
  /\ unit.result < CalculateProgress("deploying")

\* a call of generateDeploymentConfig has returned
ConfigAssembled == unit.fn = "generateDeploymentConfig" /\ unit.done

\* the port-inference table of the configuration assembler
InferredPort(framework) ==
  CASE framework = "flask" -> 5000
    [] framework = "spring-boot" -> 8080
    [] framework = "express" -> 3000
    [] OTHER -> 8080

NamesText(route, error) ==
  IF route = "chat" THEN error = "Missing required field: message"
  ELSE error = "Missing required field: description"

\* the words of an error that name the source references of a route
NamesSource(route, error) ==
  IF route = "deploy"
    THEN error = "Either repositoryUrl or analysisId must be provided"
    ELSE error = "Either repositoryUrl or codebase file must be provided"

\* every body that lacks the text field or every source reference fails the
\* validation of every route
InvalidBodiesFail ==
  \A route \in IntakeRoutes, body \in IntakeBodies :
    (~body.text \/ (~body.repositoryUrl /\ ~body.other))
      => (ValidateIntake(route, body) # NoError)

\* the rejection names a field that the rejected body lacks
NamesMissingField(r) ==
  \/ ~r.body.text /\ NamesText(r.route, r.error)
  \/ ~r.body.repositoryUrl /\ ~r.body.other /\ NamesSource(r.route, r.error)

\* C21: an intake call whose body lacks the text field or every source
\* reference is answered 400 with an error naming a field the body lacks, and
\* the step that answers leaves the table, the records and the handlers as
\* they were: no record is created and no phase is started.
C21_InvalidIntakeRejected ==
  [][InvalidBodiesFail /\
     ((reply'.api = "intake") =>
        (reply'.code = 400 /\ NamesMissingField(reply') /\
         deployments' = deployments /\ heap' = heap /\
         proc' = proc /\ acked' = acked))]_vars

\* a chat request without a message is rejected while another deployment's
\* record is in the table
C21_Witness ==
  /\ reply.api = "intake" /\ reply.route = "chat" /\ ~reply.body.text
  /\ reply.code = 400
  /\ \E id \in Ids : Has(id)

\* C22: the steps call for a deployment whose record is in memory answers
\* that record's steps list, so its answer is empty only when the record has
\* no steps.
C22_StepsOfRecord ==
  (reply.api = "steps" /\ Has(reply.deploymentId))
    => (reply.code = 200 /\ reply.steps = Get(reply.deploymentId).steps)

\* the directory a file or directory lies in
DirName(p) == SubSeq(p, 1, Len(p) - 1)

\* C23: whatever TEMP_DIR holds, the state file the status reconciliation
\* looks for lies in the directory the driver provisions and destroys in,
\* and that directory lies in the deployment directory the cleanup removes.
C23_OneLocation ==
  (unit.fn = "paths" /\ unit.done) =>
    /\ DirName(unit.result.status) = unit.result.apply
    /\ unit.result.apply = unit.result.destroy
    /\ unit.result.cleanup = DirName(DirName(unit.result.apply))

\* the driver has written the templates of a deployment
TemplatesWritten == unit.fn = "templates" /\ unit.done

\* C24: the bootstrap script the driver writes and applies is the one of the
\* assembled configuration: for framework flask it takes the
\* interpreted-language branch and carries the configuration's repository
\* reference and application port.
C24_AppliedTemplatesFromConfig ==
  (TemplatesWritten /\ unit.result.assembled.framework = "flask") =>
    /\ unit.result.written.main.userData.branch = "python"
    /\ unit.result.written.main.userData.repositoryUrl
         = unit.result.assembled.repositoryUrl
    /\ unit.result.written.main.userData.appPort = unit.result.assembled.appPort

\* C26: the ingress rules generated from a configuration open its application
\* port, so the port of the application_url output is one of the opened ports.
C26_UrlPortIsOpened ==
  TemplatesWritten =>
    /\ unit.result.assembled.appPort \in unit.result.generated.main.ingress
    /\ unit.result.generated.outputs.applicationUrlPort
         \in unit.result.generated.main.ingress

\* new is old with one entry appended, and that entry reports the status
OneStepAppended(old, new, status) ==
  /\ Len(new) = Len(old) + 1
  /\ SubSeq(new, 1, Len(old)) = old
  /\ new[Len(new)].status = status

\* C25: every change of the status of a stored record, on every call path,
\* appends exactly one entry to its step log, and the entry reports the new
\* status.
C25_StatusChangeLogsOneStep ==
  [][\A id \in Ids :
       (Has(id) /\ Has(id)' /\ Get(id)'.status # Get(id).status)
         => OneStepAppended(Get(id).steps, Get(id)'.steps, Get(id)'.status)]_vars

\* destroy has just returned successfully for this id
DestroyReturned(id) ==
  destroyRes.res = "ok" /\ destroyRes.deploymentId = id /\ ~Has(id)

\* C27: once destroy has returned successfully for an id, the step that comes
\* next, whichever handler takes it, leaves the id absent: no write of a phase
\* sequence still in flight stores a record under it again.
C27_DestroyedStaysAbsent ==
  [][\A id \in Ids : DestroyReturned(id) => ~Has(id)']_vars

\* the progress getDeploymentStatus reports for the record stored under id
Progress(id) == StatusOfRecord(id, Get(id)).progress

\* the record under id is worked on by its chat run, and no other call has
\* been made: no other id was drawn and destroy was not called
AloneInChat(id) ==
  /\ Has(id)
  /\ proc[id].kind = "chat"
  /\ id \notin destroyed
  /\ \A other \in Ids \ {id} : other >= nextId

\* C28: along a chat run, no step lowers the progress that the status call
\* reports for its record, and the progress is 100 once the status is
\* completed or deployed.
C28_ProgressMonotone ==
  [][\A id \in Ids :
       (AloneInChat(id) /\ Has(id)') =>
         /\ Progress(id)' >= Progress(id)
         /\ (Get(id)'.status \in TerminalSuccess) => (Progress(id)' = 100)]_vars

\* a logs call has just been answered
LogsAnswered == reply.api = "logs"

\* C30: a logs call never throws (it is answered 200 with a list that is not
\* empty); when the id has no record in memory and no deployment directory,
\* and whenever a failure was caught inside, the list holds an error.log
\* entry.
C30_LogsNeverThrow ==
  LogsAnswered =>
    /\ reply.code = 200
    /\ reply.logs # {}
    /\ (~Has(reply.deploymentId) /\ reply.deploymentId \notin depDir)
         => ("error.log" \in reply.logs)
    /\ (reply.error # NoError) => ("error.log" \in reply.logs)

\* logs were asked for an id that has neither record nor directory, and the
\* answer is the error.log entry naming the failed status lookup
C30_Witness ==
  /\ LogsAnswered
  /\ ~Has(reply.deploymentId)
  /\ reply.deploymentId \notin depDir
  /\ reply.logs = {"error.log"}
  /\ reply.error = "Deployment not found"

\* the chat sequence accepted under id has not ended
ChatRunning(id) ==
  id \in acked /\ proc[id].kind = "chat" /\ proc[id].pc # "done"

\* the chat sequence of id has ended and left the record completed or failed
ChatSettled(id) ==
  /\ proc[id].kind = "chat" /\ proc[id].pc = "done"
  /\ Has(id) /\ Get(id).status \in {"completed", "failed"}

\* the process was restarted after the chat sequence of id began
ChatLost(id) == proc[id].kind = "none"

\* an accepted chat sequence that runs in a process that stays up ends with
\* its record completed or failed
ChatTerminates ==
  \A id \in Ids : ChatRunning(id) ~> (ChatSettled(id) \/ ChatLost(id))

\* no step changes the status of the record of a chat sequence that ended
ChatStatusFinal ==
  [][\A id \in Ids :
       (ChatSettled(id) /\ Has(id)') => Get(id)'.status = Get(id).status]_vars

\* C29: when every collaborator call and tool run returns or fails, every
\* accepted chat deployment ends with its record completed or failed, and the
\* status of the record does not change afterwards.
C29_ChatEndsAndStays == ChatTerminates /\ ChatStatusFinal

=============================================================================
